---- MODULE Spec2Model ----
(***************************************************************************)
(* A model of ContentWarningElement (src/content-warning.js, lines 31-462):*)
(* one instance of the custom element, its host attributes, its private    *)
(* state (_internals, _refs), its shadow tree and the events it dispatches.*)
(* The element `el` is one record; every method of the class is an         *)
(* operator from element state to element state, composed in the order the *)
(* code calls them.  The actions are the callbacks the browser delivers    *)
(* (connectedCallback, disconnectedCallback, the animation frame, the      *)
(* attribute changes, a click on the overlay) and the host's assignments.  *)
(***************************************************************************)
EXTENDS Integers, Sequences, FiniteSets, TLC

VARIABLES
    el,         \* the element: attributes, own properties, _internals, _refs, shadow tree, light DOM, dispatched events
    connected,  \* whether the element is in a document
    attaches,   \* number of connectedCallback runs so far (each schedules one frame)
    registry,   \* window.customElements: which class each tag name is defined as
    document    \* the document of the page: the children of its head

vars == <<el, connected, attaches, registry, document>>

----------------------------------------------------------------------------
(* Bounds *)

\* connectedCallback runs at most this many times in a behaviour
MaxAttach == 3

\* direct invocations of _reveal() are possible until this many events were dispatched
MaxEvents == 2

----------------------------------------------------------------------------
(* Values *)

\* JavaScript null / undefined, an absent attribute (getAttribute gives null),
\* an absent own property, and the boolean false; none is an attribute string
Null == "<null>"
Undefined == "<undefined>"
NoOwn == "<no own property>"
JSFalse == "<boolean false>"

\* null reference to a node; the nodes a render creates carry the render's number
NoNode == 0

PropNames == {"type", "labelPrefix", "labelSuffix"}

AttrOf(prop) ==
    CASE prop = "type" -> "type"
      [] prop = "labelPrefix" -> "label-prefix"
      [] prop = "labelSuffix" -> "label-suffix"

observedAttributes == {"type", "label-prefix", "label-suffix", "blur"}

AttrNames == observedAttributes \cup {"inline", "revealed", "role", "tabindex", "hidden"}

\* the strings the host writes into each label attribute
AttrValues(name) ==
    CASE name = "type" -> {"", "violence"}
      [] name = "label-prefix" -> {"Note"}
      [] name = "label-suffix" -> {"", "false", "Tap"}

\* values a host assigns to a property
PropValues(prop) ==
    AttrValues(AttrOf(prop)) \cup {Null, Undefined}
        \cup (IF prop = "labelSuffix" THEN {JSFalse} ELSE {})

\* own data properties present on the instance when it is upgraded
OwnChoices ==
    { [type |-> t, labelPrefix |-> p, labelSuffix |-> s] :
        t \in {NoOwn, "violence", Undefined}, p \in {NoOwn, "Note"}, s \in {NoOwn, "false"} }

\* light-DOM children of the host: text nodes and elements (by their markup)
TextNode == "#text"
ChildrenChoices ==
    { <<>>, <<"<p>a</p>">>, <<TextNode, "<div><strong>b</strong></div>", "<p>a</p>">> }

\* String(value), as setAttribute applies it
ToStr(v) == IF v = JSFalse THEN "false" ELSE v

\* JavaScript falsiness of the values above
Falsy(v) == v \in {Null, Undefined, "", JSFalse}

\* the mutation: a ?? b, only null and undefined give way to b
Or_Nullish(a, b) == IF a \in {Null, Undefined} THEN b ELSE a

\* a || b
Or(a, b) == IF Falsy(a) THEN b ELSE a

----------------------------------------------------------------------------
(* The element after construction *)

NoLabel == [prefix |-> Null, type |-> Null, suffix |-> Null, present |-> FALSE]

EmptyShadow ==
    [ overlay |-> NoNode, button |-> NoNode, wrapper |-> NoNode,
      slot |-> NoNode, announcement |-> NoNode,
      wrapperAttrs |-> {},          \* <<name, value>> pairs on .content-wrapper
      label |-> NoLabel,            \* the spans inside the button
      announced |-> <<>>,           \* children of .sr-announcement
      announcementAttrs |-> {},     \* attributes of .sr-announcement
      clickListener |-> FALSE ]     \* _handleClick registered on the overlay in the tree

constructor(own, children) ==
    [ attrs |-> [n \in AttrNames |-> Null],
      own |-> own,
      internals |-> [isRendered |-> FALSE, revealed |-> FALSE, isInline |-> FALSE],
      refs |-> [overlay |-> NoNode, button |-> NoNode, wrapper |-> NoNode,
                announcement |-> NoNode, slot |-> NoNode],
      shadow |-> EmptyShadow,
      children |-> children,
      renders |-> 0,
      events |-> <<>> ]

----------------------------------------------------------------------------
(* Accessors *)

\* this[prop]: an own data property shadows the accessor, which reads the attribute
PropGet(E, prop) ==
    IF E.own[prop] # NoOwn THEN E.own[prop] ELSE E.attrs[AttrOf(prop)]

hasAttribute(E, name) == E.attrs[name] # Null

\* slot.assignedElements({flatten: true}): the element children of the host
assignedElements(E) == SelectSeq(E.children, LAMBDA n : n # TextNode)

----------------------------------------------------------------------------
(* Label *)

\* the spans _updateWarningMessage builds; the suffix span only for a truthy suffix
updateLabel(prefix, type, suffix) ==
    LET sfx == IF suffix # Null /\ suffix # "false"
               THEN Or(suffix, "Click to reveal") ELSE Null
    IN  [ prefix |-> Or(prefix, "Content Warning"),
          type |-> Or(type, "content"),
          suffix |-> IF Falsy(sfx) THEN Null ELSE sfx,
          present |-> TRUE ]

\* the mutation: the template leaves the suffix span out when there is no suffix
renderLabel_NoSuffixDefault(prefix, type, suffix) ==
    [ prefix |-> Or(prefix, "Content Warning"),
      type |-> Or(type, "content"),
      suffix |-> IF suffix # "false" /\ ~Falsy(suffix) THEN suffix ELSE Null,
      present |-> TRUE ]

\* the spans of render's buttonLabel template
renderLabel(prefix, type, suffix) ==
    [ prefix |-> Or(prefix, "Content Warning"),
      type |-> Or(type, "content"),
      suffix |-> IF suffix # "false" THEN Or(suffix, "Click to reveal") ELSE Null,
      present |-> TRUE ]

_updateWarningMessage(E) ==
    IF E.refs.button = NoNode THEN E
    ELSE IF E.refs.button # E.shadow.button THEN E   \* a node outside the tree
    ELSE [E EXCEPT !.shadow.label =
            updateLabel(PropGet(E, "labelPrefix"), PropGet(E, "type"),
                        PropGet(E, "labelSuffix"))]

----------------------------------------------------------------------------
(* Content hiding *)

StructuralAttrs == { <<"hidden", "">>, <<"inert", "">> }
VisualAttrs == { <<"aria-hidden", "true">> }
HidingNames == {"hidden", "inert", "aria-hidden"}

\* wrapper.removeAttribute for each of the names
WithoutAttrs(as, names) == { a \in as : a[1] \notin names }

\* the mutation: the attributes of the other mode are not removed first
_updateContentHiding_NoClear(E) ==
    IF E.refs.wrapper = NoNode \/ E.refs.wrapper # E.shadow.wrapper THEN E
    ELSE [E EXCEPT !.shadow.wrapperAttrs =
            @ \cup (IF hasAttribute(E, "blur") THEN VisualAttrs ELSE StructuralAttrs)]

\* the mutation: the hiding attributes are written without looking at the wrapper reference
_updateContentHiding_NoGuard(E) ==
    [E EXCEPT !.shadow.wrapperAttrs =
        WithoutAttrs(@, HidingNames)
            \cup (IF hasAttribute(E, "blur") THEN VisualAttrs ELSE StructuralAttrs)]

_updateContentHiding(E) ==
    IF E.refs.wrapper = NoNode THEN E
    ELSE IF E.refs.wrapper # E.shadow.wrapper THEN E
    ELSE [E EXCEPT !.shadow.wrapperAttrs =
            WithoutAttrs(@, HidingNames)
              \cup (IF hasAttribute(E, "blur") THEN VisualAttrs ELSE StructuralAttrs)]

----------------------------------------------------------------------------
(* Attributes and properties *)

\* the mutation: the callbacks re-derive the presentation after reveal as well
attributeChangedCallback_IgnoresRevealed(E, name, oldValue, newValue) ==
    IF oldValue = newValue THEN E
    ELSE IF name \in {"type", "label-prefix", "label-suffix"}
    THEN (IF E.internals.isRendered THEN _updateWarningMessage(E) ELSE E)
    ELSE IF name = "blur"
    THEN (IF E.internals.isRendered THEN _updateContentHiding(E) ELSE E)
    ELSE E

\* the mutation: a change of label-prefix does not update the label
attributeChangedCallback_ForgetsPrefix(E, name, oldValue, newValue) ==
    IF oldValue = newValue THEN E
    ELSE IF name \in {"type", "label-suffix"}
    THEN (IF E.internals.isRendered /\ ~E.internals.revealed
          THEN _updateWarningMessage(E) ELSE E)
    ELSE IF name = "blur"
    THEN (IF E.internals.isRendered /\ ~E.internals.revealed
          THEN _updateContentHiding(E) ELSE E)
    ELSE E

\* the mutation: the label is written without looking at isRendered or at the button reference
attributeChangedCallback_Unguarded(E, name, oldValue, newValue) ==
    IF oldValue = newValue THEN E
    ELSE IF name \in {"type", "label-prefix", "label-suffix"}
    THEN (IF ~E.internals.revealed
          THEN [E EXCEPT !.shadow.label =
                  updateLabel(PropGet(E, "labelPrefix"), PropGet(E, "type"),
                              PropGet(E, "labelSuffix"))]
          ELSE E)
    ELSE IF name = "blur"
    THEN (IF E.internals.isRendered /\ ~E.internals.revealed
          THEN _updateContentHiding(E) ELSE E)
    ELSE E

attributeChangedCallback(E, name, oldValue, newValue) ==
    IF oldValue = newValue THEN E
    ELSE IF name \in {"type", "label-prefix", "label-suffix"}
    THEN (IF E.internals.isRendered /\ ~E.internals.revealed
          THEN _updateWarningMessage(E) ELSE E)
    ELSE IF name = "blur"
    THEN (IF E.internals.isRendered /\ ~E.internals.revealed
          THEN _updateContentHiding(E) ELSE E)
    ELSE E

\* Element.setAttribute: the callback runs for an observed name, also when the value is the same
setAttribute(E, name, value) ==
    LET E1 == [E EXCEPT !.attrs[name] = ToStr(value)]
    IN  IF name \in observedAttributes
        THEN attributeChangedCallback(E1, name, E.attrs[name], ToStr(value))
        ELSE E1

\* Element.removeAttribute: nothing happens when the attribute is absent
removeAttribute(E, name) ==
    IF E.attrs[name] = Null THEN E
    ELSE LET E1 == [E EXCEPT !.attrs[name] = Null]
         IN  IF name \in observedAttributes
             THEN attributeChangedCallback(E1, name, E.attrs[name], Null)
             ELSE E1

\* the mutation: the labelPrefix setter writes the attribute of labelSuffix
setter_WrongAttribute(E, prop, value) ==
    LET name == IF prop = "labelPrefix" THEN "label-suffix" ELSE AttrOf(prop)
    IN  IF value = Null \/ value = Undefined
        THEN removeAttribute(E, name)
        ELSE setAttribute(E, name, value)

\* the mutation: only null removes the attribute
setter_NullOnly(E, prop, value) ==
    IF value = Null
    THEN removeAttribute(E, AttrOf(prop))
    ELSE setAttribute(E, AttrOf(prop), value)

\* set type / set labelPrefix / set labelSuffix
setter(E, prop, value) ==
    IF value = Null \/ value = Undefined
    THEN removeAttribute(E, AttrOf(prop))
    ELSE setAttribute(E, AttrOf(prop), value)

\* this[prop] = value: with an own data property in place the accessor is not reached
assign(E, prop, value) ==
    IF E.own[prop] # NoOwn THEN [E EXCEPT !.own[prop] = value]
    ELSE setter(E, prop, value)

\* the mutation: the own property is deleted and its value is not assigned again
_upgradeProperty_DeleteOnly(E, prop) ==
    IF E.own[prop] # NoOwn THEN [E EXCEPT !.own[prop] = NoOwn] ELSE E

\* the mutation: the own property is left in place
_upgradeProperty_NoDelete(E, prop) == E

_upgradeProperty(E, prop) ==
    IF E.own[prop] # NoOwn
    THEN LET value == E.own[prop]
             E1 == [E EXCEPT !.own[prop] = NoOwn]
         IN  setter(E1, prop, value)
    ELSE E

----------------------------------------------------------------------------
(* Reveal *)

\* lines 300-305: the hiding attributes leave the cached wrapper
clearWrapperHiding(E) ==
    IF E.refs.wrapper = NoNode \/ E.refs.wrapper # E.shadow.wrapper THEN E
    ELSE [E EXCEPT !.shadow.wrapperAttrs = WithoutAttrs(@, HidingNames)]

\* the element's own tag, without its descendants
ShallowMarkup(node) ==
    CASE node = "<p>a</p>" -> "<p></p>"
      [] node = "<div><strong>b</strong></div>" -> "<div></div>"
      [] OTHER -> node

\* Node.cloneNode(deep): a copy with the same markup, or of the element alone
cloneNode(node, deep) == IF deep THEN node ELSE ShallowMarkup(node)

\* the mutation: the slotted elements themselves are appended, which moves them out of the host
_announceReveal_Move(E) ==
    IF E.refs.announcement = NoNode \/ E.refs.slot = NoNode THEN E
    ELSE IF E.refs.announcement # E.shadow.announcement THEN E
    ELSE [E EXCEPT !.shadow.announced = assignedElements(E),
                   !.children = SelectSeq(E.children, LAMBDA n : n = TextNode)]

\* the mutation: cloneNode(false), the elements without their descendants
_announceReveal_Shallow(E) ==
    IF E.refs.announcement = NoNode \/ E.refs.slot = NoNode THEN E
    ELSE IF E.refs.announcement # E.shadow.announcement THEN E
    ELSE LET slottedElements == assignedElements(E)
         IN  [E EXCEPT !.shadow.announced =
                [i \in 1..Len(slottedElements) |-> cloneNode(slottedElements[i], FALSE)]]

\* el.cloneNode(true) of each assigned element replaces the region's content
_announceReveal(E) ==
    IF E.refs.announcement = NoNode \/ E.refs.slot = NoNode THEN E
    ELSE IF E.refs.announcement # E.shadow.announcement THEN E
    ELSE LET slottedElements == assignedElements(E)
         IN  [E EXCEPT !.shadow.announced =
                [i \in 1..Len(slottedElements) |-> cloneNode(slottedElements[i], TRUE)]]

\* the mutation: the overlay leaves the tree but the button reference is kept
removeOverlay_KeepButtonRef(E) ==
    IF E.refs.overlay = NoNode THEN E
    ELSE LET E1 == IF E.refs.overlay = E.shadow.overlay
                   THEN [E EXCEPT !.shadow.overlay = NoNode, !.shadow.button = NoNode,
                                  !.shadow.label = NoLabel, !.shadow.clickListener = FALSE]
                   ELSE E
         IN  [E1 EXCEPT !.refs.overlay = NoNode]

\* lines 310-315: overlay.remove() takes the button and its label with it
removeOverlay(E) ==
    IF E.refs.overlay = NoNode THEN E
    ELSE LET E1 == IF E.refs.overlay = E.shadow.overlay
                   THEN [E EXCEPT !.shadow.overlay = NoNode, !.shadow.button = NoNode,
                                  !.shadow.label = NoLabel, !.shadow.clickListener = FALSE]
                   ELSE E
         IN  [E1 EXCEPT !.refs.overlay = NoNode, !.refs.button = NoNode]

RevealedEvent(type) ==
    [ name |-> "content-warning:revealed", detail |-> [type |-> type],
      bubbles |-> TRUE, composed |-> TRUE ]

\* what a listener of the event finds when it reads the instance, or clicks, during dispatch
ListenerView(E) ==
    [ revealed |-> E.internals.revealed,
      wrapperAttrs |-> E.shadow.wrapperAttrs,
      announced |-> E.shadow.announced = assignedElements(E),
      overlay |-> E.shadow.overlay,
      refs |-> <<E.refs.overlay, E.refs.button>>,
      revealedAttr |-> E.attrs["revealed"],
      clickReveals |-> ~E.internals.revealed ]       \* the test of _handleClick, line 288

\* the event as its listeners receive it, synchronously inside dispatchEvent
Delivered(event, E) ==
    [ name |-> event.name, detail |-> event.detail,
      bubbles |-> event.bubbles, composed |-> event.composed,
      seen |-> ListenerView(E) ]

\* the mutation: the label's fallback is applied to the detail as well
dispatchRevealed_Defaulted(E) ==
    [E EXCEPT !.events =
        Append(@, Delivered(RevealedEvent(Or(PropGet(E, "type"), "content")), E))]

\* lines 323-330
dispatchRevealed(E) ==
    [E EXCEPT !.events = Append(@, Delivered(RevealedEvent(PropGet(E, "type")), E))]

\* the mutation: the host is marked revealed and gets no role
markHost_NoRole(E) == setAttribute(E, "revealed", "")

\* the mutation: the host's tab stop and role are taken away at reveal
markHost_DropsAffordances(E) ==
    removeAttribute(removeAttribute(setAttribute(E, "revealed", ""), "tabindex"), "role")

\* the mutation: the host gets the role and not the attribute revealed
markHost_NoRevealedAttribute(E) == setAttribute(E, "role", "alert")

\* lines 317-321: the host gets the attributes revealed and role="alert"
markHost(E) == setAttribute(setAttribute(E, "revealed", ""), "role", "alert")

\* the mutation: the event is dispatched before the instance is changed
_reveal_DispatchFirst(E) ==
    LET E0 == dispatchRevealed(E)
        E1 == [E0 EXCEPT !.internals.revealed = TRUE]
        E2 == clearWrapperHiding(E1)
        E3 == _announceReveal(E2)
        E4 == removeOverlay(E3)
    IN  markHost(E4)

_reveal(E) ==
    LET E1 == [E EXCEPT !.internals.revealed = TRUE]
        E2 == clearWrapperHiding(E1)
        E3 == _announceReveal(E2)
        E4 == removeOverlay(E3)
        E5 == markHost(E4)
    IN  dispatchRevealed(E5)

\* the mutation: the handler reveals without looking at the state
_handleClick_Unguarded(E) == _reveal(E)

\* the mutation: the handler looks for the prompt instead of the state
_handleClick_WhilePrompt(E) ==
    IF E.refs.overlay # NoNode THEN _reveal(E) ELSE E

_handleClick(E) ==
    IF ~E.internals.revealed THEN _reveal(E) ELSE E

----------------------------------------------------------------------------
(* Render *)

\* the mutation: the region is built without aria-live
buildShadow_NoAriaLive(E) ==
    LET id == E.renders + 1
    IN  [E EXCEPT
          !.renders = id,
          !.shadow = [ overlay |-> id, button |-> id, wrapper |-> id,
                       slot |-> id, announcement |-> id,
                       wrapperAttrs |-> {},
                       label |-> renderLabel(PropGet(E, "labelPrefix"), PropGet(E, "type"),
                                             PropGet(E, "labelSuffix")),
                       announced |-> <<>>,
                       announcementAttrs |-> { <<"role", "alert">> },
                       clickListener |-> FALSE ]]

\* shadowRoot.innerHTML = ...: every node of the tree is new, numbered by the render
buildShadow(E) ==
    LET id == E.renders + 1
    IN  [E EXCEPT
          !.renders = id,
          !.shadow = [ overlay |-> id, button |-> id, wrapper |-> id,
                       slot |-> id, announcement |-> id,
                       wrapperAttrs |-> {},
                       label |-> renderLabel(PropGet(E, "labelPrefix"), PropGet(E, "type"),
                                             PropGet(E, "labelSuffix")),
                       announced |-> <<>>,
                       announcementAttrs |-> { <<"role", "alert">>, <<"aria-live", "assertive">> },
                       clickListener |-> FALSE ]]

\* the mutation: the references are looked up on the first render only
cacheRefs_Once(E) ==
    IF E.refs.overlay # NoNode THEN E
    ELSE [E EXCEPT !.refs = [ overlay |-> E.shadow.overlay, button |-> E.shadow.button,
                              wrapper |-> E.shadow.wrapper,
                              announcement |-> E.shadow.announcement, slot |-> E.shadow.slot ]]

\* lines 444-450: querySelector on the new tree
cacheRefs(E) ==
    [E EXCEPT !.refs = [ overlay |-> E.shadow.overlay, button |-> E.shadow.button,
                         wrapper |-> E.shadow.wrapper,
                         announcement |-> E.shadow.announcement, slot |-> E.shadow.slot ]]

\* lines 452-455
addOverlayListener(E) ==
    IF E.refs.overlay # NoNode /\ E.refs.overlay = E.shadow.overlay
    THEN [E EXCEPT !.shadow.clickListener = TRUE] ELSE E

setRendered(E) == [E EXCEPT !.internals.isRendered = TRUE]

\* the mutation: the initial hiding is not applied
render_NoHiding(E) ==
    setRendered(addOverlayListener(cacheRefs(buildShadow(E))))

\* the mutation: rendering starts over from the hidden state
render_ResetsRevealed(E) ==
    [setRendered(_updateContentHiding(addOverlayListener(cacheRefs(buildShadow(E)))))
        EXCEPT !.internals.revealed = FALSE]

render(E) ==
    setRendered(_updateContentHiding(addOverlayListener(cacheRefs(buildShadow(E)))))

----------------------------------------------------------------------------
(* Lifecycle callbacks *)

\* the mutation: the frame renders without upgrading the properties
initFrame_NoUpgrade(E) ==
    render([E EXCEPT !.internals.isInline = hasAttribute(E, "inline")])

\* the callback connectedCallback hands to requestAnimationFrame
initFrame(E) ==
    LET E1 == _upgradeProperty(E, "type")
        E2 == _upgradeProperty(E1, "labelPrefix")
        E3 == _upgradeProperty(E2, "labelSuffix")
        E4 == [E3 EXCEPT !.internals.isInline = hasAttribute(E3, "inline")]
    IN  render(E4)

\* the mutation: detachment also forgets that the instance was rendered, and its references
disconnectedCallback_Resets(E) ==
    [E EXCEPT !.shadow.clickListener = FALSE,
              !.internals.isRendered = FALSE,
              !.refs = [overlay |-> NoNode, button |-> NoNode, wrapper |-> NoNode,
                        announcement |-> NoNode, slot |-> NoNode]]

disconnectedCallback(E) ==
    IF E.refs.overlay # NoNode /\ E.refs.overlay = E.shadow.overlay
    THEN [E EXCEPT !.shadow.clickListener = FALSE] ELSE E

----------------------------------------------------------------------------
(* The document's head and the pre-definition style *)

\* most children the page's head is given
MaxHead == 5

styleId == "content-warning-pre-definition"

\* the style element lines 40-48 create
PreDefinitionStyle == [tag |-> "style", id |-> styleId]

\* elements the page itself puts into its head
PageNodes == { [tag |-> "style", id |-> Null], [tag |-> "meta", id |-> Null] }

EmptyDocument == [head |-> <<>>]

\* document.getElementById(id), as the test of line 39 uses it: whether there is such an element
getElementById(D, id) == \E i \in 1..Len(D.head) : D.head[i].id = id

\* the mutation: the style element is appended without looking for it
_injectPreDefinitionStyles_Always(D) ==
    [D EXCEPT !.head = Append(@, PreDefinitionStyle)]

_injectPreDefinitionStyles(D) ==
    IF ~getElementById(D, styleId)
    THEN [D EXCEPT !.head = Append(@, PreDefinitionStyle)]
    ELSE D

\* the static initialization block, lines 52-54, run when the class is evaluated
ClassEvaluated == _injectPreDefinitionStyles(EmptyDocument)

----------------------------------------------------------------------------
(* The custom element registry (define.js) *)

\* tag names a page may use for custom elements
TagNames == {"content-warning", "my-warning", "cw-note", "x-a", "x-b"}

\* the component's class and classes of other components on the page
ContentWarningElement == "ContentWarningElement"
OtherClasses == {"ClassA", "ClassB"}

\* window.customElements with nothing defined; `present` is false where there is no window
\* or no registry, `define` is false where registry.define is not a function
EmptyRegistry ==
    [present |-> TRUE, define |-> TRUE, names |-> [n \in TagNames |-> Null]]

\* CustomElementRegistry.define of the platform: it throws NotSupportedError when the name
\* or the constructor is already in use, and registers the class otherwise
define(R, tagName, class) ==
    IF R.names[tagName] # Null \/ (\E n \in TagNames : R.names[n] = class)
    THEN [registry |-> R, result |-> "NotSupportedError"]
    ELSE [registry |-> [R EXCEPT !.names[tagName] = class], result |-> "undefined"]

\* define.js lines 3-16: the registry afterwards and the value returned, or the error thrown
defineComponentName(R, tagName) ==
    IF ~R.present \/ ~R.define THEN [registry |-> R, result |-> "false"]
    ELSE IF R.names[tagName] = Null
    THEN LET d == define(R, tagName, ContentWarningElement)
         IN  [registry |-> d.registry,
              result |-> IF d.result = "undefined" THEN "true" ELSE d.result]
    ELSE [registry |-> R, result |-> "true"]

\* define.js line 18 has run in a browser: the class is defined as content-warning
AutoDefined == defineComponentName(EmptyRegistry, "content-warning").registry

----------------------------------------------------------------------------
(* Actions *)

pendingFrames == attaches - el.renders

\* an element created after the class was defined: no own property shadows an accessor
NoOwnProps == [type |-> NoOwn, labelPrefix |-> NoOwn, labelSuffix |-> NoOwn]

Init ==
    /\ \E children \in ChildrenChoices : el = constructor(NoOwnProps, children)
    /\ connected = FALSE
    /\ attaches = 0
    /\ registry = AutoDefined
    /\ document = ClassEvaluated

\* an element that existed before the class was defined and is upgraded with own properties
InitUpgrade ==
    /\ \E own \in OwnChoices : el = constructor(own, <<"<p>a</p>">>)
    /\ connected = FALSE
    /\ attaches = 0
    /\ registry = AutoDefined
    /\ document = ClassEvaluated

\* the element is inserted into a document: connectedCallback only schedules the frame
Connect ==
    /\ ~connected
    /\ attaches < MaxAttach
    /\ connected' = TRUE
    /\ attaches' = attaches + 1
    /\ UNCHANGED <<el, registry, document>>

Disconnect ==
    /\ connected
    /\ connected' = FALSE
    /\ el' = disconnectedCallback(el)
    /\ UNCHANGED <<attaches, registry, document>>

\* a scheduled animation frame runs; it cannot be cancelled, so it runs detached too
Frame ==
    /\ pendingFrames > 0
    /\ el' = initFrame(el)
    /\ UNCHANGED <<connected, attaches, registry, document>>

HostSetAttribute ==
    \E name \in {"type", "label-prefix", "label-suffix"} : \E value \in AttrValues(name) :
        /\ el' = setAttribute(el, name, value)
        /\ UNCHANGED <<connected, attaches, registry, document>>

HostRemoveAttribute ==
    \E name \in {"type", "label-prefix", "label-suffix"} :
        /\ el.attrs[name] # Null
        /\ el' = removeAttribute(el, name)
        /\ UNCHANGED <<connected, attaches, registry, document>>

HostSetProperty ==
    \E prop \in PropNames : \E value \in PropValues(prop) :
        /\ el' = assign(el, prop, value)
        /\ UNCHANGED <<connected, attaches, registry, document>>

HostToggleBlur ==
    /\ el' = IF hasAttribute(el, "blur") THEN removeAttribute(el, "blur")
             ELSE setAttribute(el, "blur", "")
    /\ UNCHANGED <<connected, attaches, registry, document>>

HostToggleInline ==
    /\ el' = IF hasAttribute(el, "inline") THEN removeAttribute(el, "inline")
             ELSE setAttribute(el, "inline", "")
    /\ UNCHANGED <<connected, attaches, registry, document>>

\* the mutation: a change of the children of a revealed instance is announced again
HostSetChildren_Reannounces ==
    \E children \in ChildrenChoices :
        /\ children # el.children
        /\ el' = LET E1 == [el EXCEPT !.children = children]
                 IN  IF E1.internals.revealed THEN _announceReveal(E1) ELSE E1
        /\ UNCHANGED <<connected, attaches, registry, document>>

\* the host replaces the light-DOM children
HostSetChildren ==
    \E children \in ChildrenChoices :
        /\ children # el.children
        /\ el' = [el EXCEPT !.children = children]
        /\ UNCHANGED <<connected, attaches, registry, document>>

\* a click on the overlay (or on the button, bubbling to it) reaches the registered listener
Click ==
    /\ el.shadow.overlay # NoNode
    /\ el' = IF el.shadow.clickListener THEN _handleClick(el) ELSE el
    /\ UNCHANGED <<connected, attaches, registry, document>>

\* a caller of the private method: element._reveal()
CallReveal ==
    /\ Len(el.events) < MaxEvents
    /\ el' = _reveal(el)
    /\ UNCHANGED <<connected, attaches, registry, document>>

Next ==
    \/ Connect
    \/ Disconnect
    \/ Frame
    \/ HostSetAttribute
    \/ HostRemoveAttribute
    \/ HostSetProperty
    \/ HostToggleBlur
    \/ HostSetChildren
    \/ Click

Spec == Init /\ [][Next]_vars

\* callers of the private _reveal() beside the lifecycle and the click
NextWithReveal ==
    \/ Connect
    \/ Disconnect
    \/ Frame
    \/ HostToggleBlur
    \/ HostSetChildren
    \/ Click
    \/ CallReveal

SpecWithReveal == Init /\ [][NextWithReveal]_vars

\* an upgraded element: its own properties, its attachment and the host's assignments
NextUpgrade ==
    \/ Connect
    \/ Disconnect
    \/ Frame
    \/ HostSetProperty
    \/ HostToggleInline

SpecUpgrade == InitUpgrade /\ [][NextUpgrade]_vars

----------------------------------------------------------------------------
(* Properties *)

revealed == el.internals.revealed
isRendered == el.internals.isRendered
wrapperAttrs == el.shadow.wrapperAttrs
blurMode == hasAttribute(el, "blur")

StructuralActive == StructuralAttrs \subseteq wrapperAttrs
VisualActive == \E a \in wrapperAttrs : a[1] = "aria-hidden"
HidingAttrs == { a \in wrapperAttrs : a[1] \in HidingNames }

\* C1: the 'content-warning:revealed' event is dispatched at most once per
\* instance, and a step dispatches it exactly when that step takes `revealed`
\* from false to true.
C1_EventExactlyAtReveal ==
    /\ Len(el.events) = 0
    /\ [][ /\ Len(el'.events) <= 1
           /\ Len(el'.events) \in {Len(el.events), Len(el.events) + 1}
           /\ (Len(el'.events) = Len(el.events) + 1) <=> (~revealed /\ revealed') ]_vars

\* revealed by a click, and rendered again afterwards with the listener back in place
C1_Witness ==
    /\ revealed
    /\ Len(el.events) = 1
    /\ el.renders >= 2
    /\ el.shadow.clickListener

\* C2: `revealed` is false after construction, stays false as long as no event
\* was dispatched, and once true is true in every later state.
C2_RevealedIrreversible ==
    /\ ~revealed
    /\ [][ /\ revealed => revealed'
           /\ Len(el'.events) = 0 => ~revealed' ]_vars

\* revealed, then detached, attached again and rendered again
C2_Witness ==
    /\ revealed
    /\ el.renders = 3
    /\ ~connected
    /\ hasAttribute(el, "blur")

\* C3 (as claimed): a run of _reveal() on an instance that is already revealed
\* changes nothing: no second event, no second teardown or announcement copy.
C3_RevealIdempotent ==
    [][ (revealed /\ CallReveal) => el' = el ]_vars

\* C3 (amended): a run of the click handler _handleClick on an instance that is
\* already revealed changes nothing; the guard is in the handler, not in _reveal.
C3_HandleClickIdempotent ==
    [][ (revealed /\ Click) => el' = el ]_vars

\* a revealed instance whose overlay is back with the handler registered: a click runs the handler
C3_Witness ==
    /\ revealed
    /\ el.shadow.overlay # NoNode
    /\ el.shadow.clickListener
    /\ Len(el.events) = 1

\* C4: while rendered and not revealed, the wrapper carries exactly the
\* attributes of the current mode: hidden and inert without blur,
\* aria-hidden="true" with blur, never attributes of both.
C4_HidingMatchesBlur ==
    (isRendered /\ ~revealed) =>
        /\ el.shadow.wrapper # NoNode
        /\ wrapperAttrs = IF blurMode THEN VisualAttrs ELSE StructuralAttrs

\* rendered without blur, then blur added: the wrapper is in the visual mode
C4_Witness ==
    /\ isRendered /\ ~revealed
    /\ blurMode
    /\ wrapperAttrs = VisualAttrs
    /\ el.renders = 1

\* C5 (as claimed): whenever `revealed` is true the wrapper carries none of
\* hidden, inert, aria-hidden.
C5_RevealedNotHidden ==
    revealed => HidingAttrs = {}

\* C6 (as claimed): whenever `revealed` is false, from construction on, exactly
\* one of structural and visual hiding is active on the content.
C6_ExactlyOneHidingFromConstruction ==
    ~revealed => (StructuralActive /\ ~VisualActive) \/ (VisualActive /\ ~StructuralActive)

\* C6 (amended): whenever `revealed` is false and the first render has run,
\* exactly one of structural and visual hiding is active; before the first
\* render there is no wrapper and no hiding attribute.
C6_ExactlyOneHidingOnceRendered ==
    /\ (~revealed /\ isRendered) =>
            (StructuralActive /\ ~VisualActive) \/ (VisualActive /\ ~StructuralActive)
    /\ ~isRendered => (el.shadow.wrapper = NoNode /\ HidingAttrs = {} /\ ~revealed)

\* rendered a second time while unrevealed, in the structural mode
C6_Witness ==
    /\ ~revealed /\ isRendered
    /\ el.renders = 2
    /\ StructuralActive /\ ~VisualActive

\* C7: no step of the widget changes the host's light-DOM children; they change
\* only when the host replaces them.
C7_ChildrenUntouched ==
    [][ el'.children # el.children => HostSetChildren ]_vars

\* revealed with element children: the announcement copy ran and the children are in place
C7_Witness ==
    /\ revealed
    /\ Len(el.shadow.announced) = 2
    /\ Len(el.children) = 3

\* C8: the event a step dispatches has detail.type equal to the `type`
\* attribute at that moment (null when absent), and is bubbling and composed.
C8_EventDetail ==
    [][ Len(el'.events) > Len(el.events) =>
          LET e == el'.events[Len(el'.events)]
          IN  /\ e.name = "content-warning:revealed"
              /\ e.detail.type = el.attrs["type"]
              /\ e.detail.type = el'.attrs["type"]
              /\ e.bubbles /\ e.composed ]_vars

\* revealed without a type attribute: the detail carries null
C8_Witness ==
    /\ Len(el.events) = 1
    /\ el.events[1].detail.type = Null
    /\ ~hasAttribute(el, "type")

\* C9: the step that reveals removes overlay and button from the shadow tree
\* and nulls their references, and leaves the wrapper, announcement and slot
\* references non-null, unchanged and pointing into the shadow tree.
C9_RevealTearsDownPrompt ==
    [][ (~revealed /\ revealed') =>
          /\ el'.shadow.overlay = NoNode /\ el'.shadow.button = NoNode
          /\ el'.refs.overlay = NoNode /\ el'.refs.button = NoNode
          /\ el.refs.overlay # NoNode /\ el.refs.button # NoNode
          /\ \A r \in {"wrapper", "announcement", "slot"} :
                /\ el'.refs[r] # NoNode
                /\ el'.refs[r] = el.refs[r]
                /\ el'.refs[r] = el'.shadow[r] ]_vars

\* just revealed: the prompt is gone and the other references are those of the one render
C9_Witness ==
    /\ revealed
    /\ el.renders = 1
    /\ el.refs.overlay = NoNode /\ el.refs.button = NoNode
    /\ el.refs.wrapper = 1 /\ el.shadow.wrapper = 1

\* C10 (as claimed): once revealed, in every later state the shadow tree holds
\* no overlay and no button and the cached overlay and button references are null.
C10_PromptNeverBack ==
    [][ revealed =>
          /\ el'.shadow.overlay = NoNode /\ el'.shadow.button = NoNode
          /\ el'.refs.overlay = NoNode /\ el'.refs.button = NoNode ]_vars

\* a step in which the host wrote `value` into attribute `name`, or removed it (value Null)
AttributeWritten(name, value) ==
    /\ UNCHANGED <<connected, attaches, registry, document>>
    /\ el'.attrs # el.attrs
    /\ el'.attrs[name] = value
    /\ el' = IF value = Null THEN removeAttribute(el, name) ELSE setAttribute(el, name, value)

LabelProps == { <<"type", "type">>, <<"labelPrefix", "label-prefix">>, <<"labelSuffix", "label-suffix">> }

\* C11: after reveal, a change of type, label-prefix, label-suffix or blur is
\* taken into the attributes (the property getter returns the new value) and
\* leaves the shadow tree and the cached references as they were: no prompt
\* node appears, the wrapper's attributes and the announcement do not change.
C11_ChangeAfterRevealKeepsPresentation ==
    [][ (revealed /\ el'.attrs # el.attrs) =>
          /\ \A pa \in LabelProps : \A value \in AttrValues(pa[2]) \cup {Null} :
                AttributeWritten(pa[2], value) =>
                    /\ PropGet(el', pa[1]) = value
                    /\ el'.shadow = el.shadow /\ el'.refs = el.refs
          /\ \A value \in {"", Null} :
                AttributeWritten("blur", value) =>
                    /\ el'.attrs["blur"] = value
                    /\ el'.shadow = el.shadow /\ el'.refs = el.refs ]_vars

\* revealed without a type and without blur, both set afterwards; the wrapper is still unhidden
C11_Witness ==
    /\ revealed
    /\ el.events[1].detail.type = Null
    /\ el.attrs["type"] = "violence"
    /\ blurMode
    /\ el.renders = 1
    /\ wrapperAttrs = {}

----------------------------------------------------------------------------
(* The property/attribute bridge on an upgraded element *)

\* an upgraded element: attachment, the frame, assignments, attribute writes and the click
NextBridge ==
    \/ Connect
    \/ Disconnect
    \/ Frame
    \/ HostSetProperty
    \/ HostSetAttribute
    \/ HostRemoveAttribute
    \/ Click

SpecBridge == InitUpgrade /\ [][NextBridge]_vars

\* a step in which the host assigned `value` to property `prop`
PropertyAssigned(prop, value) ==
    /\ UNCHANGED <<connected, attaches, registry, document>>
    /\ el' = assign(el, prop, value)

\* a step in which the host called setAttribute(name, value)
AttributeSet(name, value) ==
    /\ UNCHANGED <<connected, attaches, registry, document>>
    /\ el' = setAttribute(el, name, value)

\* C12 (as claimed): in every lifecycle state, after the property is set to a
\* non-null X the attribute reads X, and after the attribute is set to X the
\* property reads X.
C12_RoundTripEverywhere ==
    [][ \A pa \in LabelProps : \A X \in AttrValues(pa[2]) :
          /\ PropertyAssigned(pa[1], X) => el'.attrs[pa[2]] = X
          /\ AttributeSet(pa[2], X) => PropGet(el', pa[1]) = X ]_vars

\* C12 (amended): the same, in every lifecycle state in which no own property
\* shadows the accessor of the key; while one does (an upgraded instance before
\* its first frame) an assignment only replaces the own property and the
\* property reads the own property.
C12_RoundTripUnlessShadowed ==
    [][ \A pa \in LabelProps : \A X \in AttrValues(pa[2]) :
          /\ (el.own[pa[1]] = NoOwn /\ PropertyAssigned(pa[1], X)) => el'.attrs[pa[2]] = X
          /\ (el.own[pa[1]] = NoOwn /\ AttributeSet(pa[2], X)) => PropGet(el', pa[1]) = X
          /\ (el.own[pa[1]] # NoOwn /\ PropertyAssigned(pa[1], X)) =>
                (el'.own[pa[1]] = X /\ el'.attrs = el.attrs)
          /\ (el.own[pa[1]] # NoOwn /\ AttributeSet(pa[2], X)) =>
                PropGet(el', pa[1]) = el.own[pa[1]] ]_vars

\* an upgraded instance, revealed with the type of its own property, whose type was written again afterwards
C12_Witness ==
    /\ revealed
    /\ el.own = NoOwnProps
    /\ el.events[1].detail.type = "violence"
    /\ el.attrs["type"] = ""
    /\ el.attrs["label-suffix"] = "false"


\* set K(value) runs: the assignment reaches the accessor, no own property being in its way
SetterCalled(prop, value) ==
    /\ el.own[prop] = NoOwn
    /\ PropertyAssigned(prop, value)

\* C13: the setter of type, labelPrefix or labelSuffix, called with null or undefined, removes
\* the attribute, and the property then reads null; called with any other value it stores
\* that value, as a string, in the attribute
C13_SetterRemovesOrStores ==
    [][ \A pa \in LabelProps : \A value \in PropValues(pa[1]) :
          SetterCalled(pa[1], value) =>
              IF value \in {Null, Undefined}
              THEN el'.attrs[pa[2]] = Null /\ PropGet(el', pa[1]) = Null
              ELSE el'.attrs[pa[2]] = (IF value = JSFalse THEN "false" ELSE value) ]_vars

\* a rendered instance whose type was removed and whose suffix was stored through the setters
C13_Witness ==
    /\ isRendered
    /\ el.own = NoOwnProps
    /\ el.attrs["type"] = Null
    /\ el.attrs["label-prefix"] = "Note"
    /\ el.attrs["label-suffix"] = "Tap"
    /\ el.shadow.label.type = "content"


\* C14: the deferred init keeps what each of the three properties read before it ran: a
\* non-null value, whether held by the attribute or by an own property shadowing the
\* accessor, is the attribute's value afterwards (as a string) and is what the property
\* reads; and once the instance is rendered no own property shadows an accessor.
C14_EarlyValuePreserved ==
    [][ /\ (el'.renders # el.renders /\ Frame) =>
              \A pa \in LabelProps :
                  LET value == PropGet(el, pa[1])
                  IN  value \notin {Null, Undefined} =>
                          /\ el'.attrs[pa[2]] = ToStr(value)
                          /\ PropGet(el', pa[1]) = ToStr(value)
        /\ el'.internals.isRendered => el'.own = NoOwnProps ]_vars

\* an instance upgraded with all three own properties, after its first init, with the label they give
C14_Witness ==
    /\ isRendered /\ ~revealed
    /\ el.renders = 1
    /\ el.own = NoOwnProps
    /\ el.attrs["type"] = "violence"
    /\ el.attrs["label-prefix"] = "Note"
    /\ el.attrs["label-suffix"] = "false"
    /\ el.shadow.label.prefix = "Note"
    /\ el.shadow.label.type = "violence"
    /\ el.shadow.label.suffix = Null


----------------------------------------------------------------------------
(* The label *)

label == el.shadow.label

\* the three fragments shown with no configuration
DefaultLabel ==
    [prefix |-> "Content Warning", type |-> "content", suffix |-> "Click to reveal", present |-> TRUE]

\* C15: the first render builds the label from the attribute values it finds when the
\* deferred init runs: a non-empty value is shown as it is, an absent one is replaced by
\* its default, and "false" as the suffix leaves the suffix out; with nothing configured
\* the three fragments are "Content Warning", "content", "Click to reveal".
C15_FirstRenderLabel ==
    [][ (~isRendered /\ el'.internals.isRendered) =>
          LET prefix == el'.attrs["label-prefix"]
              type == el'.attrs["type"]
              suffix == el'.attrs["label-suffix"]
              shown == el'.shadow.label
          IN  /\ shown.present
              /\ prefix = Null => shown.prefix = "Content Warning"
              /\ prefix \notin {Null, ""} => shown.prefix = prefix
              /\ type = Null => shown.type = "content"
              /\ type \notin {Null, ""} => shown.type = type
              /\ suffix = Null => shown.suffix = "Click to reveal"
              /\ suffix = "false" => shown.suffix = Null
              /\ suffix \notin {Null, "", "false"} => shown.suffix = suffix
              /\ (prefix = Null /\ type = Null /\ suffix = Null) => shown = DefaultLabel ]_vars

\* the first render of an instance with no configuration
C15_Witness ==
    /\ isRendered /\ ~revealed
    /\ el.renders = 1
    /\ \A name \in {"type", "label-prefix", "label-suffix"} : el.attrs[name] = Null
    /\ label = DefaultLabel


\* values a host writes into the label attributes, the empty string among them
LabelValues(name) == AttrValues(name) \cup {""}

HostSetLabel ==
    \E name \in {"type", "label-prefix", "label-suffix"} : \E value \in LabelValues(name) :
        /\ el' = setAttribute(el, name, value)
        /\ UNCHANGED <<connected, attaches, registry, document>>

\* the label's inputs only: attachment, the frame, writes of the three attributes and the click
NextLabel ==
    \/ Connect
    \/ Disconnect
    \/ Frame
    \/ HostSetLabel
    \/ HostRemoveAttribute
    \/ Click

SpecLabel == Init /\ [][NextLabel]_vars

C17_SuffixRule ==
    (isRendered /\ ~revealed) =>
        LET suffix == el.attrs["label-suffix"]
        IN  /\ suffix = "false" => label.suffix = Null
            /\ suffix = Null => label.suffix = "Click to reveal"
            /\ suffix \notin {"false", Null, ""} => label.suffix = suffix


\* a step in which _updateWarningMessage composed the label: a label attribute of a
\* rendered, not revealed instance changed
LabelUpdated ==
    /\ isRendered /\ ~revealed
    /\ \E name \in {"type", "label-prefix", "label-suffix"} : el'.attrs[name] # el.attrs[name]

\* a step in which render composed the label
LabelRendered == el'.renders # el.renders

----------------------------------------------------------------------------
(* The announcement region *)

announced == el.shadow.announced

\* C19: when a rendered instance is revealed, the announcement region's content becomes
\* exactly the copies, with their nested markup, of the element children projected into
\* the slot at that moment, in their order, whatever the region held before; the
\* children themselves stay where they are.
C19_AnnouncementIsDeepCopy ==
    [][ (isRendered /\ Len(el'.events) > Len(el.events)) =>
          /\ el'.shadow.announced = SelectSeq(el.children, LAMBDA node : node # TextNode)
          /\ el'.children = el.children ]_vars

\* revealed a second time on the same tree: the two element children, nested markup
\* included, are the region's content and the three children are in place
C19_Witness ==
    /\ revealed
    /\ Len(el.events) = 2
    /\ el.renders = 1
    /\ announced = << "<div><strong>b</strong></div>", "<p>a</p>" >>
    /\ el.children = << TextNode, "<div><strong>b</strong></div>", "<p>a</p>" >>


\* C20: once rendered, the shadow tree holds an announcement region with role="alert" and
\* aria-live="assertive", and while the instance is rendered and not revealed the region
\* is empty.
C20_RegionPresentAndEmptyUntilReveal ==
    /\ isRendered =>
          /\ el.shadow.announcement # NoNode
          /\ el.shadow.announcementAttrs = { <<"role", "alert">>, <<"aria-live", "assertive">> }
    /\ (isRendered /\ ~revealed) => announced = <<>>

\* rendered a second time with element children and still not revealed: the region is empty
C20_Witness ==
    /\ isRendered /\ ~revealed
    /\ el.renders = 2
    /\ Len(el.children) = 3
    /\ el.shadow.announcement = 2
    /\ announced = <<>>


\* C21: once the instance is revealed, no later step (an attribute or property change,
\* a detachment, a re-attachment, the frame it schedules) empties or replaces the
\* content of the announcement region.
C21_AnnouncementRetained ==
    [][ revealed => el'.shadow.announced = announced ]_vars


----------------------------------------------------------------------------
(* The host element *)

HostMarkup == { [tabindex |-> t, hidden |-> h] : t \in {Null, "0"}, h \in {Null, ""} }

\* an element parsed from markup with these attributes, created after the class was defined
InitHost ==
    /\ \E markup \in HostMarkup :
          el = [constructor(NoOwnProps, <<"<p>a</p>">>) EXCEPT
                  !.attrs["tabindex"] = markup.tabindex,
                  !.attrs["hidden"] = markup.hidden]
    /\ connected = FALSE
    /\ attaches = 0
    /\ registry = AutoDefined
    /\ document = ClassEvaluated

\* keys of the keydown events a user sends
Keys == {"Enter", " ", "Escape"}

\* the nodes an event passes, from its target up to the host
EventPath(target) ==
    CASE target = "button" -> {"button", "overlay", "host"}
      [] target = "overlay" -> {"overlay", "host"}
      [] target = "host" -> {"host"}

\* the listeners the class has registered: line 454 is its only addEventListener
Listeners(E) ==
    IF E.shadow.clickListener THEN { [node |-> "overlay", type |-> "click"] } ELSE {}

\* the mutation: Enter on the host reveals, as a click does
dispatchEvent_EnterOnHost(E, target, type, key) ==
    IF target = "host" /\ type = "keydown" /\ key = "Enter" THEN _handleClick(E)
    ELSE IF \E l \in Listeners(E) : l.node \in EventPath(target) /\ l.type = type
    THEN _handleClick(E)
    ELSE E

\* the mutation: the listener on the overlay is run by events of every type
dispatchEvent_AnyType(E, target, type, key) ==
    IF \E l \in Listeners(E) : l.node \in EventPath(target)
    THEN _handleClick(E)
    ELSE E

\* an event of this type is dispatched at the target: a listener on its path runs _handleClick
dispatchEvent(E, target, type, key) ==
    IF \E l \in Listeners(E) : l.node \in EventPath(target) /\ l.type = type
    THEN _handleClick(E)
    ELSE E

\* a keydown event is delivered to the host element
HostKeydown ==
    \E key \in Keys :
        /\ el' = dispatchEvent(el, "host", "keydown", key)
        /\ UNCHANGED <<connected, attaches, registry, document>>

NextHost ==
    \/ Connect
    \/ Disconnect
    \/ Frame
    \/ HostToggleBlur
    \/ HostKeydown
    \/ Click

SpecHost == InitHost /\ [][NextHost]_vars

C25_HostHiddenRemovedOnBoot ==
    isRendered => el.attrs["hidden"] = Null


----------------------------------------------------------------------------
(* Before the first render, and detachment *)

\* C26: while isRendered is false, a change of type, label-prefix, label-suffix or blur
\* is taken into the attribute and nothing else: the shadow tree and the cached
\* references stay as they were, and revealed and isRendered do not change.
C26_ChangeBeforeRenderIsNoOp ==
    [][ (~isRendered /\ \E name \in observedAttributes : el'.attrs[name] # el.attrs[name]) =>
          /\ el'.shadow = el.shadow
          /\ el'.refs = el.refs
          /\ el'.internals = el.internals
          /\ el'.events = el.events ]_vars

\* attached, the frame still pending, type and blur already written: nothing is built yet
C26_Witness ==
    /\ ~isRendered /\ connected
    /\ el.attrs["type"] = "violence"
    /\ el.attrs["blur"] = ""
    /\ el.attrs["label-suffix"] = "false"
    /\ el.shadow = EmptyShadow


----------------------------------------------------------------------------
(* Defining the element *)

\* the page before define.js has run: no registry, a registry without define, or an empty one
InitDefine ==
    /\ registry \in { EmptyRegistry,
                      [EmptyRegistry EXCEPT !.present = FALSE, !.define = FALSE],
                      [EmptyRegistry EXCEPT !.define = FALSE] }
    /\ document = ClassEvaluated
    /\ el = constructor(NoOwnProps, <<>>)
    /\ connected = FALSE
    /\ attaches = 0

\* define.js line 18, or a caller of the exported function; when define throws nothing is registered
DefineComponentName ==
    \E tagName \in TagNames :
        /\ registry' = defineComponentName(registry, tagName).registry
        /\ UNCHANGED <<el, connected, attaches, document>>

\* another component of the page defines its element
PageDefines ==
    \E tagName \in TagNames : \E class \in OtherClasses :
        /\ registry.present /\ registry.define
        /\ define(registry, tagName, class).result = "undefined"
        /\ registry' = define(registry, tagName, class).registry
        /\ UNCHANGED <<el, connected, attaches, document>>

NextDefine ==
    \/ DefineComponentName
    \/ PageDefines

SpecDefine == InitDefine /\ [][NextDefine]_vars

\* C27: for every tag name, defineComponentName returns false and registers nothing when
\* there is no registry with a define function; otherwise it returns true (it never
\* throws), leaves a name that is already defined as it is, and defines a name that is
\* not yet defined as the component's class.
C27_DefineIsSafe ==
    \A tagName \in TagNames :
        LET call == defineComponentName(registry, tagName)
        IN  IF ~registry.present \/ ~registry.define
            THEN call.result = "false" /\ call.registry = registry
            ELSE /\ call.result = "true"
                 /\ registry.names[tagName] # Null => call.registry = registry
                 /\ registry.names[tagName] = Null =>
                        call.registry = [registry EXCEPT !.names[tagName] = ContentWarningElement]


\* C28: every 'content-warning:revealed' event was delivered to its listeners with the
\* reveal already complete: revealed true, no hiding attribute on the wrapper, the
\* announcement region holding the copies, the overlay out of the tree and its cached
\* references null, the host carrying the revealed attribute; and a click arriving
\* during the dispatch would not reveal again.
C28_ListenersSeeTerminalState ==
    \A i \in 1..Len(el.events) :
        LET seen == el.events[i].seen
        IN  /\ seen.revealed
            /\ { a \in seen.wrapperAttrs : a[1] \in {"hidden", "inert", "aria-hidden"} } = {}
            /\ seen.announced
            /\ seen.overlay = NoNode
            /\ seen.refs = <<NoNode, NoNode>>
            /\ seen.revealedAttr = ""
            /\ ~seen.clickReveals

\* a reveal in blur mode with element children has been delivered
C28_Witness ==
    /\ Len(el.events) = 1
    /\ el.events[1].seen.revealed
    /\ blurMode
    /\ Len(announced) = 2
    /\ el.renders = 1


\* C29: a detachment changes nothing but the click listener, which is no longer
\* registered afterwards: revealed and isRendered, all attributes, the cached references,
\* the light-DOM children, the dispatched events and every part of the shadow tree (its
\* nodes, the wrapper's attributes, the label, the announcement) are as before.
C29_DetachOnlyReleasesListener ==
    [][ (connected /\ ~connected') =>
          /\ el'.internals = el.internals
          /\ el'.attrs = el.attrs
          /\ el'.own = el.own
          /\ el'.refs = el.refs
          /\ el'.children = el.children
          /\ el'.events = el.events
          /\ el'.renders = el.renders
          /\ el'.shadow = [el.shadow EXCEPT !.clickListener = FALSE] ]_vars

\* detached after the render, before any reveal: the prompt is whole, the listener is gone
C29_Witness ==
    /\ ~connected
    /\ isRendered /\ ~revealed
    /\ el.shadow.overlay # NoNode
    /\ el.refs.overlay = el.shadow.overlay
    /\ ~el.shadow.clickListener
    /\ StructuralActive
    /\ pendingFrames = 0


\* C30: while the instance is detached, no click listener is registered on the overlay
\* and no step reveals the content, also when the frame scheduled by an attachment runs
\* after the detachment.
C30_DetachedIsInert ==
    [][ (~connected /\ ~connected') =>
          /\ ~el'.shadow.clickListener
          /\ el'.internals.revealed = revealed ]_vars


----------------------------------------------------------------------------
(* The deferred initialization *)

\* attachment, detachment and the frames of an upgraded element
NextFair ==
    \/ Connect
    \/ Disconnect
    \/ Frame
    \/ HostToggleInline

\* the browser runs every requested animation frame. This is weak fairness of Frame,
\* written out: Frame is enabled exactly while a frame is pending, and always changes el.
FrameFairness == []<>(pendingFrames = 0) \/ []<><<Frame>>_vars

SpecFair == InitUpgrade /\ [][NextFair]_vars /\ FrameFairness

\* C31: connectedCallback itself changes nothing on the instance, and each of its runs is
\* eventually followed by its frame: the n-th attachment leads to a state in which at
\* least n frames have run, the instance is rendered and the three properties have been
\* upgraded (no own property is left).
C31_AttachLeadsToRender ==
    /\ [][ attaches' # attaches => el' = el ]_vars
    /\ \A n \in 1..MaxAttach :
          (attaches = n) ~> (el.renders >= n /\ isRendered /\ el.own = NoOwnProps)

\* attached twice and rendered twice, the own properties moved into the attributes
C31_Witness ==
    /\ connected /\ attaches = 2 /\ el.renders = 2
    /\ isRendered
    /\ el.own = NoOwnProps
    /\ el.attrs["type"] = "violence"
    /\ el.attrs["label-prefix"] = "Note"


\* C32: while isRendered is false the instance is in its state of construction as far as
\* presentation goes: the five cached references are null, the shadow tree has none of
\* the presentation nodes, revealed is false; and the disconnect handler, the
\* attribute-change handler, the label update and the hiding update, run in that
\* state, each return with the instance unchanged.
C32_NotYetRendered ==
    ~isRendered =>
        /\ \A r \in {"overlay", "button", "wrapper", "announcement", "slot"} : el.refs[r] = NoNode
        /\ el.shadow = EmptyShadow
        /\ ~revealed
        /\ disconnectedCallback(el) = el
        /\ _updateWarningMessage(el) = el
        /\ _updateContentHiding(el) = el
        /\ \A name \in observedAttributes :
              attributeChangedCallback(el, name, Null, el.attrs[name]) = el

\* attached twice, no frame has run yet, blur and an empty type already written
C32_Witness ==
    /\ ~isRendered
    /\ attaches = 2 /\ pendingFrames = 2
    /\ blurMode
    /\ el.attrs["type"] = ""
    /\ el.refs.wrapper = NoNode


\* C33: the two label paths agree. In every rendered, not revealed state the label in the
\* shadow tree, whether render or _updateWarningMessage composed it last, is the label a
\* fresh render() composes for the attribute values of that state.
C33_LabelPathsAgree ==
    (isRendered /\ ~revealed) => label = render(el).shadow.label


\* the five kinds of node render creates and caches
NodeKinds == {"overlay", "button", "wrapper", "slot", "announcement"}

\* C34: however many times the instance was rendered, while it is not revealed the shadow
\* tree holds the overlay, button, wrapper, slot and announcement region of the latest
\* render and no others, each cached reference is the node in the tree, every render
\* leaves the click listener on the overlay in the tree, and an attached instance with no
\* frame pending has it there.
C34_OneTreeAfterRenders ==
    /\ [] ( (isRendered /\ ~revealed) =>
              /\ \A k \in NodeKinds :
                    /\ el.shadow[k] = el.renders
                    /\ el.shadow[k] # NoNode
                    /\ el.refs[k] = el.shadow[k]
              /\ (connected /\ pendingFrames = 0) => el.shadow.clickListener )
    /\ [][ (el'.renders # el.renders /\ ~el'.internals.revealed) =>
              (el'.shadow.clickListener /\ el'.refs.overlay = el'.shadow.overlay) ]_vars

\* rendered three times, not revealed: the nodes and the references are those of the third
C34_Witness ==
    /\ isRendered /\ ~revealed /\ connected
    /\ el.renders = 3
    /\ el.refs.overlay = 3 /\ el.shadow.button = 3
    /\ el.shadow.clickListener


\* C35: _upgradeProperty(K), run in any state an upgraded instance can be in: with no own
\* property K it changes nothing; with one it removes the own property, leaves the other
\* keys' own properties alone and leaves the attribute of K holding the value as a string,
\* or absent when the value is null or undefined; run again on its result it changes
\* nothing. A frame of an instance that has no own property left writes no attribute.
C35_UpgradeIdempotent ==
    /\ [] ( \A pa \in LabelProps :
              LET prop == pa[1]
                  value == el.own[prop]
                  upgraded == _upgradeProperty(el, prop)
              IN  /\ value = NoOwn => upgraded = el
                  /\ value # NoOwn =>
                        /\ upgraded.own = [el.own EXCEPT ![prop] = NoOwn]
                        /\ upgraded.attrs[pa[2]] =
                              (IF value \in {Null, Undefined} THEN Null ELSE ToStr(value))
                        /\ PropGet(upgraded, prop) = upgraded.attrs[pa[2]]
                  /\ _upgradeProperty(upgraded, prop) = upgraded )
    /\ [][ (el'.renders # el.renders /\ el.own = NoOwnProps) =>
              (el'.attrs = el.attrs /\ el'.own = el.own) ]_vars

\* an attached, upgraded instance before its frame whose own properties were assigned and
\* whose type attribute was written: the upgrade of labelSuffix stores "false", the
\* upgrade of type removes the attribute
C35_Witness ==
    /\ ~isRendered /\ attaches = 1
    /\ el.own["labelSuffix"] = JSFalse
    /\ el.own["type"] = Null
    /\ el.attrs["type"] = "violence"
    /\ _upgradeProperty(el, "type").attrs["type"] = Null
    /\ _upgradeProperty(el, "labelSuffix").attrs["label-suffix"] = "false"
    /\ _upgradeProperty(el, "labelSuffix").own["type"] = Null


\* C36: a keydown event whose key is not "Enter", delivered to the host, the overlay or
\* the button in any state, leaves revealed as it was and dispatches no notification.
C36_OtherKeysIgnored ==
    \A key \in Keys \ {"Enter"} : \A target \in {"host", "overlay", "button"} :
        LET after == dispatchEvent(el, target, "keydown", key)
        IN  /\ after.internals.revealed = revealed
            /\ after.events = el.events

\* a rendered, blurred, unrevealed instance with its listener in place: the space key on
\* the button changes nothing, where a click on it reveals
C36_Witness ==
    /\ isRendered /\ ~revealed /\ connected /\ blurMode
    /\ el.shadow.clickListener
    /\ dispatchEvent(el, "button", "keydown", " ") = el
    /\ dispatchEvent(el, "button", "click", Null).internals.revealed


\* C37: every step of a revealed instance that changes the host's children or one of its
\* attributes (type, label-prefix, label-suffix, blur, by attribute or by property)
\* leaves the content of the announcement region as it was.
C37_AnnouncementFrozen ==
    [][ (revealed /\ (el'.children # el.children \/ el'.attrs # el.attrs)) =>
          el'.shadow.announced = announced ]_vars

\* revealed with one child announced; since then the children were removed and the type
\* was changed, and the region still holds the copy made at reveal
C37_Witness ==
    /\ revealed /\ el.renders = 1
    /\ announced = <<"<p>a</p>">>
    /\ el.children = <<>>
    /\ el.attrs["type"] = "violence"
    /\ el.events[1].detail.type # "violence"


----------------------------------------------------------------------------
(* Installing the pre-definition style *)

\* the page before the class is evaluated: an empty head or one with the page's own nodes
InitDocument ==
    /\ document \in { EmptyDocument } \cup { [head |-> <<n>>] : n \in PageNodes }
    /\ registry = EmptyRegistry
    /\ el = constructor(NoOwnProps, <<>>)
    /\ connected = FALSE
    /\ attaches = 0

\* the class is evaluated (once per copy of the module), or a caller runs the static method
InjectPreDefinitionStyles ==
    /\ document' = _injectPreDefinitionStyles(document)
    /\ UNCHANGED <<el, connected, attaches, registry>>

\* the page adds an element of its own to the head
PageAppendsNode ==
    \E node \in PageNodes :
        /\ Len(document.head) < MaxHead
        /\ document' = [document EXCEPT !.head = Append(@, node)]
        /\ UNCHANGED <<el, connected, attaches, registry>>

\* the page removes a child of the head, the installed style included
PageRemovesNode ==
    \E i \in 1..Len(document.head) :
        /\ document' = [document EXCEPT
                          !.head = SubSeq(@, 1, i - 1) \o SubSeq(@, i + 1, Len(@))]
        /\ UNCHANGED <<el, connected, attaches, registry>>

NextDocument ==
    \/ InjectPreDefinitionStyles
    \/ PageAppendsNode
    \/ PageRemovesNode

SpecDocument == InitDocument /\ [][NextDocument]_vars

\* the style elements with the id of the pre-definition style
StyleCount(D) ==
    Cardinality({ i \in 1..Len(D.head) : D.head[i].tag = "style" /\ D.head[i].id = styleId })

\* C38: whatever was called before, the document never holds more than one style element
\* with id 'content-warning-pre-definition'; after a call of _injectPreDefinitionStyles
\* it holds exactly one; a call that finds it installed changes nothing, and a call
\* that does not appends it and leaves the rest of the head as it was.
C38_EnsureInstalled ==
    /\ StyleCount(document) <= 1
    /\ LET after == _injectPreDefinitionStyles(document)
       IN  /\ StyleCount(after) = 1
           /\ _injectPreDefinitionStyles(after) = after
           /\ StyleCount(document) = 1 => after = document
           /\ StyleCount(document) = 0 => after.head = Append(document.head, PreDefinitionStyle)

\* installed first, three page nodes added since: a further call changes nothing
C38_Witness ==
    /\ Len(document.head) = 4
    /\ document.head[1] = PreDefinitionStyle
    /\ document.head[4].tag = "style" /\ document.head[4].id = Null
    /\ StyleCount(document) = 1
    /\ _injectPreDefinitionStyles(document) = document


----------------------------------------------------------------------------
(* The variant of the class with the handler on the overlay and on the button *)

\* what the latest click did: runs of _handleClick and of _reveal
NoClick == [handled |-> 0, reveals |-> 0]

\* lines 497-508; `listeners` are the nodes of the shadow tree that carry _handleClick
constructor2(children) ==
    constructor(NoOwnProps, children) @@ [listeners |-> {}, click |-> NoClick]

\* lines 636-662: the overlay, and the button in it, leave the tree; the host is marked;
\* the event is dispatched
_reveal2(E) ==
    LET E1 == [E EXCEPT !.internals.revealed = TRUE, !.click.reveals = @ + 1]
        E2 == IF E1.shadow.overlay # NoNode
              THEN [E1 EXCEPT !.shadow.overlay = NoNode, !.shadow.button = NoNode,
                              !.shadow.label = NoLabel, !.listeners = {}]
              ELSE E1
    IN  dispatchRevealed(markHost(E2))

\* the mutation: the handler reveals whatever the state
_handleClick2_Unguarded(E) ==
    _reveal2([E EXCEPT !.click.handled = @ + 1])

\* lines 626-630
_handleClick2(E) ==
    LET E1 == [E EXCEPT !.click.handled = @ + 1]
    IN  IF ~E1.internals.revealed THEN _reveal2(E1) ELSE E1

\* lines 704-824: a new tree with overlay and button, the handler registered on both
render2(E) ==
    LET id == E.renders + 1
    IN  [E EXCEPT
          !.renders = id,
          !.shadow = [EmptyShadow EXCEPT
                        !.overlay = id, !.button = id,
                        !.label = renderLabel(PropGet(E, "labelPrefix"), PropGet(E, "type"),
                                              PropGet(E, "labelSuffix"))],
          !.listeners = {"overlay", "button"},
          !.internals.isRendered = TRUE]

\* lines 510-522: the callback handed to requestAnimationFrame
initFrame2(E) ==
    LET E1 == _upgradeProperty(E, "type")
        E2 == _upgradeProperty(E1, "labelPrefix")
        E3 == _upgradeProperty(E2, "labelSuffix")
        E4 == [E3 EXCEPT !.internals.isInline = hasAttribute(E3, "inline")]
    IN  render2(E4)

\* lines 524-534: the handler leaves the overlay and the button found in the tree
disconnectedCallback2(E) ==
    IF E.shadow.overlay # NoNode \/ E.shadow.button # NoNode
    THEN [E EXCEPT !.listeners = {}] ELSE E

\* the nodes a click event passes that can carry the handler, target first; the path is
\* fixed when the dispatch starts, so it includes the overlay also after it left the tree
ClickPath(target) ==
    IF target = "button" THEN <<"button", "overlay">> ELSE <<"overlay">>

\* a click event dispatched at the target: the handler runs once for each node of the path
\* that carries it, in the order of the path
dispatchClick2(E, target) ==
    LET hit == SelectSeq(ClickPath(target), LAMBDA node : node \in E.listeners)
        E0 == [E EXCEPT !.click = NoClick]
        E1 == IF Len(hit) >= 1 THEN _handleClick2(E0) ELSE E0
    IN  IF Len(hit) >= 2 THEN _handleClick2(E1) ELSE E1

InitVariant ==
    /\ \E children \in ChildrenChoices : \E type \in {Null} \cup AttrValues("type") :
          el = [constructor2(children) EXCEPT !.attrs["type"] = type]
    /\ connected = FALSE
    /\ attaches = 0
    /\ registry = AutoDefined
    /\ document = ClassEvaluated

Disconnect2 ==
    /\ connected
    /\ connected' = FALSE
    /\ el' = disconnectedCallback2(el)
    /\ UNCHANGED <<attaches, registry, document>>

Frame2 ==
    /\ pendingFrames > 0
    /\ el' = initFrame2(el)
    /\ UNCHANGED <<connected, attaches, registry, document>>

\* the user clicks the button or the overlay around it
Click2 ==
    \E target \in {"button", "overlay"} :
        /\ el.shadow.overlay # NoNode
        /\ el' = dispatchClick2(el, target)
        /\ UNCHANGED <<connected, attaches, registry, document>>

NextVariant ==
    \/ Connect
    \/ Disconnect2
    \/ Frame2
    \/ HostToggleInline
    \/ Click2

SpecVariant == InitVariant /\ [][NextVariant]_vars

\* C39: in the variant, a click on the button of an unrevealed instance that has the
\* handler on the overlay and on the button runs the handler twice, _reveal once, and
\* dispatches the notification once; afterwards the instance is revealed.
C39_TwoHandlersOneReveal ==
    (~revealed /\ el.listeners = {"overlay", "button"}) =>
        LET after == dispatchClick2(el, "button")
        IN  /\ after.click = [handled |-> 2, reveals |-> 1]
            /\ Len(after.events) = Len(el.events) + 1
            /\ after.internals.revealed
            /\ after.shadow.overlay = NoNode

\* the latest click ran the handler twice and revealed once; one notification in all
C39_Witness ==
    /\ revealed
    /\ el.click = [handled |-> 2, reveals |-> 1]
    /\ Len(el.events) = 1
    /\ el.events[1].detail.type = "violence"
    /\ el.shadow.overlay = NoNode


\* C40: with no one but the component writing the host's revealed attribute, the host
\* has the attribute in exactly the states in which the revealed property is true (so
\* the style rules for :not([revealed]) apply exactly while the content is unrevealed).
C40_AttributeFollowsProperty ==
    hasAttribute(el, "revealed") <=> revealed

\* revealed at the first render and rendered twice more since: attribute and property agree
C40_Witness ==
    /\ revealed /\ hasAttribute(el, "revealed")
    /\ connected
    /\ el.renders = 3
    /\ el.attrs["type"] = ""

====
